---- MODULE Spec2Model ----
(***************************************************************************)
(* QBR automation (quarterly_business_report_automation.py): a model of    *)
(* the alert pagination, the tag classifier, the ticket and sensor         *)
(* source clients and the sheet writer.                                    *)
(*                                                                         *)
(* Strings whose characters the code inspects (alert tags) are sequences   *)
(* of one-character strings; every other string is an opaque TLA+ string.  *)
(* The three configuration numbers of the script (page size, row cap,      *)
(* delete chunk size) are 100, 2500 and 100 in the source; here they are   *)
(* state chosen at Init from small ranges, so that every branch that       *)
(* compares them is exercised.                                             *)
(***************************************************************************)
EXTENDS Integers, Sequences, FiniteSets, TLC

VARIABLES
    \* ---- configuration (module globals of the script)
    OPSGENIE_MAX_RESPONSE_LIMIT,          \* page size of the alert query
    SMARTSHEET_MAX_DASHBOARD_ROW_COUNT,   \* cap on rows pushed to a sheet
    SMARTSHEET_MAX_ROW_DELETION,          \* row ids per delete call
    \* ---- determine_primary_opsgenie_tag
    opsgenie_tags,        \* the argument: a list of raw tags
    primary_tag,          \* the returned category ("" before the call)
    tag_pc,               \* "idle" | "call" | "returned"
    \* ---- OpsgenieClient.paginate_opsgenie_alerts / get_quarterly_opsgenie_alerts
    og_total,             \* alerts matching the query in the alert service
    list_alerts_response, \* the local of that name: [unbound |-> TRUE] before
                          \* its first assignment, then [data, next]
    current_offset,       \* the local of that name
    og_requests,          \* list_alerts calls sent so far: [limit, offset, ok]
    og_errors,            \* logger.error entries written by the generator
    quarterly_alerts,     \* the list get_quarterly_opsgenie_alerts builds
    og_pc,                \* "idle" | "first" | "loop" | "done" | "raised"
    \* ---- get_quarterly_servicenow_tickets
    servicenow_quarterly_incidents,        \* raw records of /table/incident
    servicenow_quarterly_request_items,    \* raw records of /table/sc_req_item
    servicenow_quarterly_change_requests,  \* raw records of /table/change_request
    sn_tickets,           \* the returned list of ServiceNowTicket objects
    sn_pc,                \* "idle" | "incidents" | "request_items" |
                          \* "change_requests" | "convert" | "done" | "raised"
    \* ---- get_alerting_prtg_sensors
    prtg_instances,       \* the argument: a list of instance descriptors
    prtg_index,           \* position of the for loop in prtg_instances
    prtg_requests,        \* requests.get calls sent so far, with their answers
    all_prtg_sensors,     \* the local of that name
    prtg_result,          \* the returned list
    prtg_pc,              \* "idle" | "loop" | "done" | "raised"
    \* ---- put_*_data_into_smartsheet, clear_smartsheet, add_rows_to_smartsheet
    pipeline,             \* which put_* function runs: "opsgenie" | "servicenow" | "prtg"
    source_records,       \* the list the source client returned
    sheet_rows,           \* the rows of the destination sheet at the sheet service
    smartsheet_sheet,     \* the Sheet object get_sheet returned (its rows)
    new_rows,             \* the rows the converter built
    all_row_ids,          \* the local of that name in clear_smartsheet
    chunk_offset,         \* the loop variable of clear_smartsheet
    delete_calls,         \* delete_rows calls sent so far: [ids, ok]
    add_calls,            \* add_rows calls sent so far: [rows, ok]
    sheet_log,            \* log entries of the pipeline: [level, msg]
    pipe_pc,              \* "idle" | "fetch" | "get_sheet" | "convert" | "clear" |
                          \* "chunks" | "add" | "done" | "raised"
    \* ---- ServiceNowTicket.__init__ and servicenow_ticket_to_row (resolution time)
    sn_record,            \* one raw record: its opened_at and closed_at strings
    ticket_data,          \* the ServiceNowTicket built from it ("none" before)
    resolution_time_in_days_cell,  \* the value of that cell ("unset" before)
    row_pc,               \* "idle" | "construct" | "to_row" | "done"
    \* ---- main and put_customer_data_into_smartsheets
    CUSTOMER_CONFIGS,     \* the list of customer configurations
    customer_index,       \* position of main's for loop (0 before the first)
    main_pc,              \* "idle" | "begin" | "loop" | "call_<p>" | "in_<p>" |
                          \* "complete_customer" | "done" | "aborted"
    main_log,             \* log entries written by main: [msg, customer]
    sheets,               \* rows of every sheet at the sheet service, as of the
                          \* last return of a put_* function
    pipeline_events,      \* calls and returns of put_* functions:
                          \* [customer, pipeline, event]
    sheet_calls           \* sheets that received a call: [customer, pipeline, op]

tagVars == <<opsgenie_tags, primary_tag, tag_pc>>
cfgVars == <<OPSGENIE_MAX_RESPONSE_LIMIT, SMARTSHEET_MAX_DASHBOARD_ROW_COUNT,
             SMARTSHEET_MAX_ROW_DELETION>>
pageVars == <<og_total, list_alerts_response, current_offset, og_requests,
              og_errors, quarterly_alerts, og_pc>>
snVars == <<servicenow_quarterly_incidents, servicenow_quarterly_request_items,
            servicenow_quarterly_change_requests, sn_tickets, sn_pc>>
prtgVars == <<prtg_instances, prtg_index, prtg_requests, all_prtg_sensors,
              prtg_result, prtg_pc>>
pipeVars == <<pipeline, source_records, sheet_rows, smartsheet_sheet, new_rows,
              all_row_ids, chunk_offset, delete_calls, add_calls, sheet_log, pipe_pc>>
rowVars == <<sn_record, ticket_data, resolution_time_in_days_cell, row_pc>>
mainVars == <<CUSTOMER_CONFIGS, customer_index, main_pc, main_log, sheets,
              pipeline_events, sheet_calls>>
vars == <<cfgVars, tagVars, pageVars, snVars, prtgVars, pipeVars, rowVars, mainVars>>

\* ------------------------------------------------------------------ bounds
MaxTags == 2
MaxAlerts == 7
MaxPageSize == 3
MaxCap == 5
MaxIncidents == 2
MaxRequestItems == 1
MaxChangeRequests == 1
MaxInstances == 2
MaxSensors == 2
MaxSheetRows == 4
MaxChunk == 2
MaxRecords == 2
MaxCustomers == 2

\* ------------------------------------- values of the parts a run leaves alone
\* Each specification below runs one component; the state of the others
\* stays at these values.
CfgDefault ==
    /\ OPSGENIE_MAX_RESPONSE_LIMIT = 1
    /\ SMARTSHEET_MAX_DASHBOARD_ROW_COUNT = 1
    /\ SMARTSHEET_MAX_ROW_DELETION = 1

TagIdle ==
    /\ opsgenie_tags = <<>>
    /\ primary_tag = ""
    /\ tag_pc = "idle"

PageIdle ==
    /\ og_total = 0
    /\ list_alerts_response = [unbound |-> TRUE]
    /\ current_offset = 0
    /\ og_requests = <<>>
    /\ og_errors = 0
    /\ quarterly_alerts = <<>>
    /\ og_pc = "idle"

SnIdle ==
    /\ servicenow_quarterly_incidents = <<>>
    /\ servicenow_quarterly_request_items = <<>>
    /\ servicenow_quarterly_change_requests = <<>>
    /\ sn_tickets = <<>>
    /\ sn_pc = "idle"

PrtgIdle ==
    /\ prtg_instances = <<>>
    /\ prtg_index = 0
    /\ prtg_requests = <<>>
    /\ all_prtg_sensors = <<>>
    /\ prtg_result = <<>>
    /\ prtg_pc = "idle"

PipeIdle ==
    /\ pipeline = "none"
    /\ source_records = <<>>
    /\ sheet_rows = <<>>
    /\ smartsheet_sheet = <<>>
    /\ new_rows = <<>>
    /\ all_row_ids = <<>>
    /\ chunk_offset = 0
    /\ delete_calls = <<>>
    /\ add_calls = <<>>
    /\ sheet_log = <<>>
    /\ pipe_pc = "idle"

RowIdle ==
    /\ sn_record = "none"
    /\ ticket_data = "none"
    /\ resolution_time_in_days_cell = "unset"
    /\ row_pc = "idle"

MainIdle ==
    /\ CUSTOMER_CONFIGS = <<>>
    /\ customer_index = 0
    /\ main_pc = "idle"
    /\ main_log = <<>>
    /\ sheets = <<>>
    /\ pipeline_events = <<>>
    /\ sheet_calls = {}

\* ----------------------------------------------------------------- helpers
Min(a, b) == IF a <= b THEN a ELSE b

Range(s) == {s[i] : i \in DOMAIN s}

SeqsUpTo(S, n) == UNION {[1..k -> S] : k \in 0..n}

\* `sub in tag` of Python for two strings
Contains(sub, tag) ==
    \E i \in 1..(Len(tag) - Len(sub) + 1) : SubSeq(tag, i, i + Len(sub) - 1) = sub

\* str.lower() on the ASCII letters
LowerMap ==
    [A |-> "a", B |-> "b", C |-> "c", D |-> "d", E |-> "e", F |-> "f", G |-> "g", H |-> "h", I |-> "i", J |-> "j", K |-> "k", L |-> "l", M |-> "m", N |-> "n", O |-> "o", P |-> "p", Q |-> "q", R |-> "r", S |-> "s", T |-> "t", U |-> "u", V |-> "v", W |-> "w", X |-> "x", Y |-> "y", Z |-> "z"]

LowerChar(c) == IF c \in DOMAIN LowerMap THEN LowerMap[c] ELSE c

Lower(tag) == [i \in DOMAIN tag |-> LowerChar(tag[i])]

\* ------------------------------------------------- the classifier's strings
CATCHALL == <<"c", "a", "t", "c", "h", "a", "l", "l">>
S_hotline == <<"h", "o", "t", "l", "i", "n", "e">>
S_vcenters == <<"v", "c", "e", "n", "t", "e", "r", "s">>
S_aps == <<"a", "p", "s">>
S_dash_ap == <<"-", "a", "p">>
S_hosts == <<"h", "o", "s", "t", "s">>
S_data_protection_advisor == <<"d", "a", "t", "a", " ", "p", "r", "o", "t", "e", "c", "t", "i", "o", "n", " ", "a", "d", "v", "i", "s", "o", "r">>
S_ucs == <<"u", "c", "s">>
S_probe_device == <<"p", "r", "o", "b", "e", " ", "d", "e", "v", "i", "c", "e">>
S_snow == <<"s", "n", "o", "w">>
S_contactcenter == <<"c", "o", "n", "t", "a", "c", "t", "c", "e", "n", "t", "e", "r">>
S_virtualization == <<"v", "i", "r", "t", "u", "a", "l", "i", "z", "a", "t", "i", "o", "n">>
S_repl == <<"r", "e", "p", "l">>
S_storage == <<"s", "t", "o", "r", "a", "g", "e">>
S_dash_fabric == <<"-", "f", "a", "b", "r", "i", "c">>
S_bkup == <<"b", "k", "u", "p">>
S_network == <<"n", "e", "t", "w", "o", "r", "k">>
S_dash_sw == <<"-", "s", "w">>
S_fw == <<"f", "w">>
S_server == <<"s", "e", "r", "v", "e", "r">>
S_hardware == <<"h", "a", "r", "d", "w", "a", "r", "e">>

\* The raw tags the model draws alert tag lists from.
TagUniverse == {
    <<"c", "a", "t", "c", "h", "a", "l", "l">>,
    <<"C", "a", "t", "c", "h", "A", "l", "l">>,
    <<"c", "a", "t", "c", "h", "a", "l", "l", "-", "2">>,
    <<"V", "C", "E", "N", "T", "E", "R", "S", "-", "p", "r", "o", "d">>,
    <<"s", "e", "r", "v", "e", "r", "-", "e", "a", "s", "t">>,
    <<"u", "n", "k", "n", "o", "w", "n", "-", "t", "a", "g">>,
    <<"s", "n", "o", "w", "-", "s", "e", "r", "v", "e", "r">>,
    <<"f", "w", "-", "h", "a", "r", "d", "w", "a", "r", "e">>,
    <<"h", "o", "t", "l", "i", "n", "e", "-", "a", "p", "s">>,
    <<"h", "o", "s", "t", "s", "-", "a", "p">>,
    <<"u", "c", "s", "-", "r", "e", "p", "l">>,
    <<"s", "t", "o", "r", "a", "g", "e", "-", "f", "a", "b", "r", "i", "c">>,
    <<"b", "k", "u", "p", "-", "n", "e", "t", "w", "o", "r", "k">>,
    <<"c", "o", "r", "e", "-", "s", "w">>,
    <<"p", "r", "o", "b", "e", " ", "d", "e", "v", "i", "c", "e">>,
    <<"d", "a", "t", "a", " ", "p", "r", "o", "t", "e", "c", "t", "i", "o", "n", " ", "a", "d", "v", "i", "s", "o", "r">>,
    <<"c", "o", "n", "t", "a", "c", "t", "c", "e", "n", "t", "e", "r">>,
    <<"v", "i", "r", "t", "u", "a", "l", "i", "z", "a", "t", "i", "o", "n">>
}

\* The substrings of the elif chain with their categories, in branch order.
SubstringTable == <<
    [sub |-> S_hotline, category |-> "Hotline"],
    [sub |-> S_vcenters, category |-> "vCenter"],
    [sub |-> S_aps, category |-> "Access Point"],
    [sub |-> S_dash_ap, category |-> "Access Point"],
    [sub |-> S_hosts, category |-> "Host"],
    [sub |-> S_data_protection_advisor, category |-> "Data Protection Advisor"],
    [sub |-> S_ucs, category |-> "UCS"],
    [sub |-> S_probe_device, category |-> "Probe Device"],
    [sub |-> S_snow, category |-> "ServiceNow"],
    [sub |-> S_contactcenter, category |-> "Contact Center"],
    [sub |-> S_virtualization, category |-> "Virtualization"],
    [sub |-> S_repl, category |-> "Replication"],
    [sub |-> S_storage, category |-> "Storage"],
    [sub |-> S_dash_fabric, category |-> "Storage"],
    [sub |-> S_bkup, category |-> "Backup"],
    [sub |-> S_network, category |-> "Network"],
    [sub |-> S_dash_sw, category |-> "Network"],
    [sub |-> S_fw, category |-> "Network"],
    [sub |-> S_server, category |-> "Server"],
    [sub |-> S_hardware, category |-> "Hardware"]
>>

\* The if/elif chain of the loop body: the category of the first branch
\* whose substring is in the (lower-cased) tag, "" when no branch is taken.
MatchTag(tag) ==
    IF Contains(S_hotline, tag) THEN "Hotline"
    ELSE IF Contains(S_vcenters, tag) THEN "vCenter"
    ELSE IF Contains(S_aps, tag) THEN "Access Point"
    ELSE IF Contains(S_dash_ap, tag) THEN "Access Point"
    ELSE IF Contains(S_hosts, tag) THEN "Host"
    ELSE IF Contains(S_data_protection_advisor, tag) THEN "Data Protection Advisor"
    ELSE IF Contains(S_ucs, tag) THEN "UCS"
    ELSE IF Contains(S_probe_device, tag) THEN "Probe Device"
    ELSE IF Contains(S_snow, tag) THEN "ServiceNow"
    ELSE IF Contains(S_contactcenter, tag) THEN "Contact Center"
    ELSE IF Contains(S_virtualization, tag) THEN "Virtualization"
    ELSE IF Contains(S_repl, tag) THEN "Replication"
    ELSE IF Contains(S_storage, tag) THEN "Storage"
    ELSE IF Contains(S_dash_fabric, tag) THEN "Storage"
    ELSE IF Contains(S_bkup, tag) THEN "Backup"
    ELSE IF Contains(S_network, tag) THEN "Network"
    ELSE IF Contains(S_dash_sw, tag) THEN "Network"
    ELSE IF Contains(S_fw, tag) THEN "Network"
    ELSE IF Contains(S_server, tag) THEN "Server"
    ELSE IF Contains(S_hardware, tag) THEN "Hardware"
    ELSE ""

\* A whole-tag test replaced by a substring test.
HasCatchallSubstring(tags_lowercase) ==
    \E i \in DOMAIN tags_lowercase : Contains(CATCHALL, tags_lowercase[i])

\* `"catchall" in opsgenie_tags_lowercase`: a whole-tag comparison
HasCatchall(tags_lowercase) == CATCHALL \in Range(tags_lowercase)

\* The loop without its break: the last tag that takes a branch decides.
RECURSIVE ScanTagsNoBreak(_, _, _)
ScanTagsNoBreak(tags_lowercase, i, primary) ==
    IF i > Len(tags_lowercase) THEN primary
    ELSE IF MatchTag(tags_lowercase[i]) # ""
         THEN ScanTagsNoBreak(tags_lowercase, i + 1, MatchTag(tags_lowercase[i]))
    ELSE ScanTagsNoBreak(tags_lowercase, i + 1, primary)

\* The for loop with its break: the first tag that takes a branch decides,
\* later tags are not examined; `primary` is kept when no tag matches.
RECURSIVE ScanTags(_, _, _)
ScanTags(tags_lowercase, i, primary) ==
    IF i > Len(tags_lowercase) THEN primary
    ELSE IF MatchTag(tags_lowercase[i]) # "" THEN MatchTag(tags_lowercase[i])
    ELSE ScanTags(tags_lowercase, i + 1, primary)

determine_primary_opsgenie_tag(tags) ==
    LET opsgenie_tags_lowercase == [i \in DOMAIN tags |-> Lower(tags[i])]
        bottom == IF HasCatchall(opsgenie_tags_lowercase) THEN "Catch-all" ELSE ""
        scanned == ScanTags(opsgenie_tags_lowercase, 1, bottom)
    IN  IF scanned = "" THEN "Misc." ELSE scanned

\* One call of the classifier on a tag list of at most MaxTags tags.
TagInit ==
    /\ CfgDefault
    /\ PageIdle
    /\ SnIdle
    /\ PrtgIdle
    /\ PipeIdle
    /\ RowIdle
    /\ MainIdle
    /\ opsgenie_tags \in SeqsUpTo(TagUniverse, MaxTags)
    /\ primary_tag = ""
    /\ tag_pc = "call"

DeterminePrimaryTag ==
    /\ tag_pc = "call"
    /\ primary_tag' = determine_primary_opsgenie_tag(opsgenie_tags)
    /\ tag_pc' = "returned"
    /\ UNCHANGED <<opsgenie_tags, cfgVars, pageVars, snVars, prtgVars, pipeVars, rowVars, mainVars>>

TagNext == DeterminePrimaryTag

SpecTag == TagInit /\ [][TagNext]_vars

\* ------------------------------------------------ classifier: properties
TagsLower == [i \in DOMAIN opsgenie_tags |-> Lower(opsgenie_tags[i])]

\* the table positions whose substring occurs in the tag
HitsOf(tag) == {k \in DOMAIN SubstringTable : Contains(SubstringTable[k].sub, tag)}

MatchingTags == {i \in DOMAIN opsgenie_tags : HitsOf(TagsLower[i]) # {}}

SetMin(S) == CHOOSE x \in S : \A y \in S : x <= y

DocPriority == <<"Server", "Network", "Backup", "Storage", "Replication",
                 "Virtualization", "vCenter", "UCS", "Host",
                 "Data Protection Advisor", "Access Point", "Contact Center",
                 "ServiceNow", "Probe Device", "Catch-all", "Misc.">>

DocRank(category) == CHOOSE r \in DOMAIN DocPriority : DocPriority[r] = category

\* every category some tag of the alert matches
MatchedCategories ==
    {SubstringTable[k].category : k \in UNION {HitsOf(TagsLower[i]) : i \in DOMAIN TagsLower}}
    \cup (IF CATCHALL \in Range(TagsLower) THEN {"Catch-all"} ELSE {})
    \cup {"Misc."}

\* C3: the result is the category of highest docstring priority among the
\* categories matched by any tag, whatever the order of the tags (stated for
\* the alerts all of whose matched categories the docstring ranks).
C3_HighestPriorityWins ==
    (tag_pc = "returned" /\ MatchedCategories \subseteq Range(DocPriority)) =>
        /\ primary_tag \in MatchedCategories
        /\ \A c \in MatchedCategories : DocRank(primary_tag) <= DocRank(c)

\* C4: "Catch-all" exactly when some tag equals "catchall" (whole tag, any
\* case) and no tag contains a listed substring; "Misc." exactly when
\* neither is the case; the result is never the empty string.
C4_CatchallAndMisc ==
    tag_pc = "returned" =>
        LET anyCatchall == \E i \in DOMAIN TagsLower : TagsLower[i] = CATCHALL
            anySubstring == MatchingTags # {}
        IN  /\ (primary_tag = "Catch-all") <=> (anyCatchall /\ ~anySubstring)
            /\ (primary_tag = "Misc.") <=> (~anyCatchall /\ ~anySubstring)
            /\ anySubstring => primary_tag \notin {"Catch-all", "Misc."}
            /\ primary_tag # ""

\* C4 witness: a mixed-case catchall tag next to a tag that only contains
\* "catchall", classified "Catch-all".
C4_Witness ==
    /\ tag_pc = "returned"
    /\ primary_tag = "Catch-all"
    /\ \E i \in DOMAIN opsgenie_tags :
           opsgenie_tags[i] # CATCHALL /\ TagsLower[i] = CATCHALL
    /\ \E i \in DOMAIN opsgenie_tags :
           TagsLower[i] # CATCHALL /\ Contains(CATCHALL, TagsLower[i])

\* --------------------------------------------------- alert source client
\* The alert service, as the client sees it when a request succeeds: the
\* matching alerts are 1..og_total, newest first; a page holds the alerts
\* offset+1 .. offset+limit that exist, and paging.next is set exactly when
\* more alerts remain after the page.
ListAlerts(limit, offset) ==
    [data |-> [i \in 1..(IF og_total > offset THEN Min(og_total - offset, limit) ELSE 0)
                   |-> offset + i],
     next |-> offset + limit < og_total]

\* limit= of the first request
FirstLimit ==
    IF OPSGENIE_MAX_RESPONSE_LIMIT <= SMARTSHEET_MAX_DASHBOARD_ROW_COUNT
    THEN OPSGENIE_MAX_RESPONSE_LIMIT
    ELSE SMARTSHEET_MAX_DASHBOARD_ROW_COUNT

\* A limit that is not cut to the remaining budget.
NextLimitUncut(offset) == OPSGENIE_MAX_RESPONSE_LIMIT

\* limit= of a request inside the while loop
NextLimit(offset) ==
    IF offset + OPSGENIE_MAX_RESPONSE_LIMIT <= SMARTSHEET_MAX_DASHBOARD_ROW_COUNT
    THEN OPSGENIE_MAX_RESPONSE_LIMIT
    ELSE SMARTSHEET_MAX_DASHBOARD_ROW_COUNT - offset

\* the condition of the while loop
MorePages ==
    /\ list_alerts_response.next
    /\ current_offset < SMARTSHEET_MAX_DASHBOARD_ROW_COUNT

\* The first request succeeds. A single page is handed back with `return`
\* inside the generator: it ends the iteration and the caller's for loop
\* receives no page. Otherwise the page is yielded and the caller appends it.
PageFirstOk ==
    /\ og_pc = "first"
    /\ LET resp == ListAlerts(FirstLimit, 0) IN
        /\ list_alerts_response' = resp
        /\ og_requests' = Append(og_requests, [limit |-> FirstLimit, offset |-> 0, ok |-> TRUE])
        /\ IF ~resp.next \/ Len(resp.data) = SMARTSHEET_MAX_DASHBOARD_ROW_COUNT
           THEN /\ og_pc' = "done"
                /\ UNCHANGED <<quarterly_alerts, current_offset>>
           ELSE /\ quarterly_alerts' = quarterly_alerts \o resp.data
                /\ current_offset' = current_offset + OPSGENIE_MAX_RESPONSE_LIMIT
                /\ og_pc' = "loop"
    /\ UNCHANGED <<og_total, og_errors, cfgVars, tagVars, snVars, prtgVars, pipeVars, rowVars, mainVars>>

\* The first request fails: the exception is logged, list_alerts_response
\* was never bound, and reading it raises (UnboundLocalError) out of the
\* generator and of get_quarterly_opsgenie_alerts.
PageFirstFail ==
    /\ og_pc = "first"
    /\ og_requests' = Append(og_requests, [limit |-> FirstLimit, offset |-> 0, ok |-> FALSE])
    /\ og_errors' = og_errors + 1
    /\ og_pc' = "raised"
    /\ UNCHANGED <<og_total, list_alerts_response, current_offset, quarterly_alerts,
                   cfgVars, tagVars, snVars, prtgVars, pipeVars, rowVars, mainVars>>

\* A later request succeeds: its page is yielded and appended.
PageNextOk ==
    /\ og_pc = "loop"
    /\ MorePages
    /\ LET resp == ListAlerts(NextLimit(current_offset), current_offset) IN
        /\ list_alerts_response' = resp
        /\ quarterly_alerts' = quarterly_alerts \o resp.data
    /\ og_requests' = Append(og_requests,
           [limit |-> NextLimit(current_offset), offset |-> current_offset, ok |-> TRUE])
    /\ current_offset' = current_offset + OPSGENIE_MAX_RESPONSE_LIMIT
    /\ UNCHANGED <<og_total, og_errors, og_pc, cfgVars, tagVars, snVars, prtgVars, pipeVars, rowVars, mainVars>>

\* A failed later request whose iteration yields nothing.
PageNextFailYieldsNothing ==
    /\ og_pc = "loop"
    /\ MorePages
    /\ og_errors' = og_errors + 1
    /\ og_requests' = Append(og_requests,
           [limit |-> NextLimit(current_offset), offset |-> current_offset, ok |-> FALSE])
    /\ current_offset' = current_offset + OPSGENIE_MAX_RESPONSE_LIMIT
    /\ UNCHANGED <<og_total, list_alerts_response, og_pc, quarterly_alerts,
                   cfgVars, tagVars, snVars, prtgVars, pipeVars, rowVars, mainVars>>

\* A failed later request that is sent once more at the same offset before
\* the offset advances.
PageNextFailSendsAgain ==
    /\ og_pc = "loop"
    /\ MorePages
    /\ og_errors' = og_errors + 1
    /\ quarterly_alerts' = quarterly_alerts \o list_alerts_response.data
    /\ og_requests' = Append(og_requests,
           [limit |-> NextLimit(current_offset), offset |-> current_offset, ok |-> FALSE])
    /\ current_offset' =
           IF og_requests[Len(og_requests)].offset = current_offset
           THEN current_offset + OPSGENIE_MAX_RESPONSE_LIMIT
           ELSE current_offset
    /\ UNCHANGED <<og_total, list_alerts_response, og_pc, cfgVars, tagVars, snVars, prtgVars, pipeVars, rowVars, mainVars>>

\* A later request fails: the exception is logged, list_alerts_response keeps
\* the previous page, which is yielded again; the offset advances.
PageNextFail ==
    /\ og_pc = "loop"
    /\ MorePages
    /\ og_errors' = og_errors + 1
    /\ quarterly_alerts' = quarterly_alerts \o list_alerts_response.data
    /\ og_requests' = Append(og_requests,
           [limit |-> NextLimit(current_offset), offset |-> current_offset, ok |-> FALSE])
    /\ current_offset' = current_offset + OPSGENIE_MAX_RESPONSE_LIMIT
    /\ UNCHANGED <<og_total, list_alerts_response, og_pc, cfgVars, tagVars, snVars, prtgVars, pipeVars, rowVars, mainVars>>

\* The while condition is false: the generator is exhausted and
\* get_quarterly_opsgenie_alerts returns quarterly_alerts.
PageExit ==
    /\ og_pc = "loop"
    /\ ~MorePages
    /\ og_pc' = "done"
    /\ UNCHANGED <<og_total, list_alerts_response, current_offset, og_requests,
                   og_errors, quarterly_alerts, cfgVars, tagVars, snVars, prtgVars, pipeVars, rowVars, mainVars>>

\* One call of get_quarterly_opsgenie_alerts, for every page size, cap and
\* number of matching alerts within the bounds.
PageInit ==
    /\ OPSGENIE_MAX_RESPONSE_LIMIT \in 1..MaxPageSize
    /\ SMARTSHEET_MAX_DASHBOARD_ROW_COUNT \in 1..MaxCap
    /\ SMARTSHEET_MAX_ROW_DELETION = 1
    /\ TagIdle
    /\ SnIdle
    /\ PrtgIdle
    /\ PipeIdle
    /\ RowIdle
    /\ MainIdle
    /\ og_total \in 0..MaxAlerts
    /\ list_alerts_response = [unbound |-> TRUE]
    /\ current_offset = 0
    /\ og_requests = <<>>
    /\ og_errors = 0
    /\ quarterly_alerts = <<>>
    /\ og_pc = "first"

PageNext ==
    \/ PageFirstOk
    \/ PageFirstFail
    \/ PageNextOk
    \/ PageNextFail
    \/ PageExit

SpecPage == PageInit /\ [][PageNext]_vars

\* The same run when the interpreter keeps executing: every request returns
\* or raises, and the generator and its caller take their next step.
\* Every step of PageNext sends a request or changes og_pc.
SpecPageFair == SpecPage /\ WF_<<og_requests, og_pc>>(PageNext)


\* ------------------------------------------------- pagination: properties
NoPageFailed == \A i \in DOMAIN og_requests : og_requests[i].ok

RECURSIVE SumLimits(_)
SumLimits(reqs) ==
    IF reqs = <<>> THEN 0 ELSE reqs[1].limit + SumLimits(Tail(reqs))

\* C1: with no failed request and og_total matching alerts,
\* get_quarterly_opsgenie_alerts returns the first min(og_total, cap) alerts
\* in service order, also when the first page is the only page.
C1_ReturnsFirstAlerts ==
    (og_pc = "done" /\ NoPageFailed) =>
        quarterly_alerts =
            [i \in 1..Min(og_total, SMARTSHEET_MAX_DASHBOARD_ROW_COUNT) |-> i]

\* C5: with no failed request, the pages are requested at offsets 0, P, 2P,
\* ... each with limit min(P, C - offset); the limits never sum to more than
\* C, and to exactly C when the sequence is ended by the cap; the alerts
\* yielded are never more than C.
C5_LimitsWithinCap ==
    NoPageFailed =>
        /\ \A i \in DOMAIN og_requests :
              /\ og_requests[i].offset = (i - 1) * OPSGENIE_MAX_RESPONSE_LIMIT
              /\ og_requests[i].limit =
                     Min(OPSGENIE_MAX_RESPONSE_LIMIT,
                         SMARTSHEET_MAX_DASHBOARD_ROW_COUNT - og_requests[i].offset)
              /\ og_requests[i].limit >= 1
        /\ SumLimits(og_requests) <= SMARTSHEET_MAX_DASHBOARD_ROW_COUNT
        /\ (og_pc = "done" /\ list_alerts_response.next) =>
               SumLimits(og_requests) = SMARTSHEET_MAX_DASHBOARD_ROW_COUNT
        /\ Len(quarterly_alerts) <= SMARTSHEET_MAX_DASHBOARD_ROW_COUNT

\* C5 witness: a run without failures that ends at the cap with a last
\* request cut below the page size.
C5_Witness ==
    /\ og_pc = "done"
    /\ NoPageFailed
    /\ Len(og_requests) >= 3
    /\ og_requests[Len(og_requests)].limit < OPSGENIE_MAX_RESPONSE_LIMIT
    /\ Len(quarterly_alerts) = SMARTSHEET_MAX_DASHBOARD_ROW_COUNT

FailedRequests == {i \in DOMAIN og_requests : ~og_requests[i].ok}

\* C16: a failed page request, the first as well as a later one, is logged,
\* is not sent again and does not abort: no exception leaves the generator
\* and get_quarterly_opsgenie_alerts still returns its list.
C16_NoFailureAborts ==
    /\ og_errors = Cardinality(FailedRequests)
    /\ \A i, j \in DOMAIN og_requests : i # j => og_requests[i].offset # og_requests[j].offset
    /\ og_pc # "raised"

\* the last request before request i that succeeded
LastOkBefore(i) ==
    CHOOSE j \in 1..(i - 1) :
        /\ og_requests[j].ok
        /\ \A k \in (j + 1)..(i - 1) : ~og_requests[k].ok

\* the page the service holds for request i
PageOf(i) == ListAlerts(og_requests[i].limit, og_requests[i].offset)

\* what the claim says is yielded for request i
YieldFor(i) ==
    IF og_requests[i].ok THEN PageOf(i).data ELSE PageOf(LastOkBefore(i)).data

RECURSIVE YieldedUpTo(_)
YieldedUpTo(i) == IF i = 0 THEN <<>> ELSE YieldedUpTo(i - 1) \o YieldFor(i)

\* C17: when a later request fails, the records of the most recent
\* successful page are yielded again in its place, the offset still advances
\* by the page size and the loop goes on with the stale response; the list
\* then holds duplicates and none of the alerts of the failed offset.
C17_StalePageYieldedAgain ==
    (og_pc \in {"loop", "done"} /\ FailedRequests # {}) =>
        /\ quarterly_alerts = YieldedUpTo(Len(og_requests))
        /\ \A i \in DOMAIN og_requests :
               og_requests[i].offset = (i - 1) * OPSGENIE_MAX_RESPONSE_LIMIT
        /\ current_offset = Len(og_requests) * OPSGENIE_MAX_RESPONSE_LIMIT
        /\ ~og_requests[Len(og_requests)].ok =>
               list_alerts_response = PageOf(LastOkBefore(Len(og_requests)))
        /\ Cardinality(Range(quarterly_alerts)) < Len(quarterly_alerts)
        /\ \A i \in FailedRequests :
               \A a \in (og_requests[i].offset + 1)..
                        Min(og_total, og_requests[i].offset + og_requests[i].limit) :
                   a \notin Range(quarterly_alerts)

\* C17 witness: a finished run in which a later request failed at an offset
\* that holds alerts and a request after it succeeded.
C17_Witness ==
    /\ og_pc = "done"
    /\ \E i \in FailedRequests :
           /\ og_requests[i].offset < og_total
           /\ \E j \in DOMAIN og_requests : j > i /\ og_requests[j].ok

\* C18: the alerts returned never exceed the cap, also when later requests
\* fail and a stale page is yielded again, for every page size and cap.
C18_CapHoldsUnderFailures ==
    Len(quarterly_alerts) <= SMARTSHEET_MAX_DASHBOARD_ROW_COUNT

\* ceil(cap / page size)
MaxPageRequests ==
    (SMARTSHEET_MAX_DASHBOARD_ROW_COUNT + OPSGENIE_MAX_RESPONSE_LIMIT - 1)
        \div OPSGENIE_MAX_RESPONSE_LIMIT

PageTerminated == og_pc \in {"done", "raised"}

\* C23: paginate_opsgenie_alerts sends at most ceil(cap / page size) page
\* requests and always comes to an end, whatever the service answers: also
\* when every response reports a further page and when every later request
\* fails.
C23_PagingTerminates ==
    /\ [](Len(og_requests) <= MaxPageRequests)
    /\ <>PageTerminated

\* C23 witness: a finished run of three or more requests, as many as the
\* bound allows, in which every request after the first failed and the last
\* response held still reported a further page.
C23_Witness ==
    /\ og_pc = "done"
    /\ Len(og_requests) >= 3
    /\ Len(og_requests) = MaxPageRequests
    /\ \A i \in 2..Len(og_requests) : ~og_requests[i].ok
    /\ list_alerts_response.next

\* -------------------------------------------------- ticket source client
\* opened_at as the ticketing system sends it with display values, in the
\* format "%Y-%m-%d %I:%M:%S %p": a day, an hour on the 12-hour clock and the
\* AM/PM mark (minutes and seconds are 00 throughout).
RawTimes == {
    [day |-> 1, hour |-> 12, pm |-> FALSE],
    [day |-> 1, hour |-> 1,  pm |-> FALSE],
    [day |-> 1, hour |-> 12, pm |-> TRUE],
    [day |-> 2, hour |-> 12, pm |-> FALSE]
}

\* datetime.strptime(raw, SERVICENOW_DATETIME_FORMAT), in hours: %I with %p
\* reads 12 AM as hour 0 and 12 PM as hour 12.
ParseServiceNowDatetime(raw) ==
    raw.day * 24 + (raw.hour % 12) + (IF raw.pm THEN 12 ELSE 0)

\* The records a table query returns: one per timestamp, numbered per table.
TableRecords(table, times) ==
    [i \in DOMAIN times |-> [number |-> <<table, i>>, opened_at |-> times[i]]]

\* ServiceNowTicket.__init__ (the fields the ordering reads)
ServiceNowTicket(raw) ==
    [number |-> raw.number, opened_at |-> ParseServiceNowDatetime(raw.opened_at)]

\* sorted(..., key=lambda ticket: ticket.opened_at): ascending and stable
RECURSIVE InsertByOpened(_, _)
InsertByOpened(sorted, t) ==
    IF sorted = <<>> THEN <<t>>
    ELSE IF sorted[Len(sorted)].opened_at <= t.opened_at THEN Append(sorted, t)
    ELSE Append(InsertByOpened(SubSeq(sorted, 1, Len(sorted) - 1), t), sorted[Len(sorted)])

RECURSIVE SortedByOpened(_)
SortedByOpened(tickets) ==
    IF tickets = <<>> THEN <<>>
    ELSE InsertByOpened(SortedByOpened(SubSeq(tickets, 1, Len(tickets) - 1)),
                        tickets[Len(tickets)])

\* list.reverse()
Reverse(s) == [i \in DOMAIN s |-> s[Len(s) + 1 - i]]

\* tickets[:SMARTSHEET_MAX_DASHBOARD_ROW_COUNT] when the list is longer
Capped(rows) ==
    IF Len(rows) > SMARTSHEET_MAX_DASHBOARD_ROW_COUNT
    THEN SubSeq(rows, 1, SMARTSHEET_MAX_DASHBOARD_ROW_COUNT)
    ELSE rows

\* The cap applied before the sort.
CapThenSortNewestFirst(tickets) == Reverse(SortedByOpened(Capped(tickets)))

\* sort ascending, reverse, cap
SortNewestFirstAndCap(tickets) == Capped(Reverse(SortedByOpened(tickets)))

AllRawQuarterlyTickets ==
    servicenow_quarterly_incidents \o servicenow_quarterly_request_items
        \o servicenow_quarterly_change_requests

FetchIncidents ==
    /\ sn_pc = "incidents"
    /\ \E times \in SeqsUpTo(RawTimes, MaxIncidents) :
           servicenow_quarterly_incidents' = TableRecords("incident", times)
    /\ sn_pc' = "request_items"
    /\ UNCHANGED <<servicenow_quarterly_request_items, servicenow_quarterly_change_requests,
                   sn_tickets, cfgVars, tagVars, pageVars, prtgVars, pipeVars, rowVars, mainVars>>

FetchRequestItems ==
    /\ sn_pc = "request_items"
    /\ \E times \in SeqsUpTo(RawTimes, MaxRequestItems) :
           servicenow_quarterly_request_items' = TableRecords("sc_req_item", times)
    /\ sn_pc' = "change_requests"
    /\ UNCHANGED <<servicenow_quarterly_incidents, servicenow_quarterly_change_requests,
                   sn_tickets, cfgVars, tagVars, pageVars, prtgVars, pipeVars, rowVars, mainVars>>

FetchChangeRequests ==
    /\ sn_pc = "change_requests"
    /\ \E times \in SeqsUpTo(RawTimes, MaxChangeRequests) :
           servicenow_quarterly_change_requests' = TableRecords("change_request", times)
    /\ sn_pc' = "convert"
    /\ UNCHANGED <<servicenow_quarterly_incidents, servicenow_quarterly_request_items,
                   sn_tickets, cfgVars, tagVars, pageVars, prtgVars, pipeVars, rowVars, mainVars>>

\* A table query raises: nothing catches it, the function is left.
TicketFetchRaises ==
    /\ sn_pc \in {"incidents", "request_items", "change_requests"}
    /\ sn_pc' = "raised"
    /\ UNCHANGED <<servicenow_quarterly_incidents, servicenow_quarterly_request_items,
                   servicenow_quarterly_change_requests, sn_tickets,
                   cfgVars, tagVars, pageVars, prtgVars, pipeVars, rowVars, mainVars>>

\* concatenate, convert, sort, reverse, cap, return
ConvertSortReturn ==
    /\ sn_pc = "convert"
    /\ sn_tickets' = SortNewestFirstAndCap(
           [i \in DOMAIN AllRawQuarterlyTickets |-> ServiceNowTicket(AllRawQuarterlyTickets[i])])
    /\ sn_pc' = "done"
    /\ UNCHANGED <<servicenow_quarterly_incidents, servicenow_quarterly_request_items,
                   servicenow_quarterly_change_requests, cfgVars, tagVars, pageVars, prtgVars, pipeVars, rowVars, mainVars>>

\* One call of get_quarterly_servicenow_tickets, for every cap within the
\* bounds.
SnInit ==
    /\ OPSGENIE_MAX_RESPONSE_LIMIT = 1
    /\ SMARTSHEET_MAX_DASHBOARD_ROW_COUNT \in 1..MaxCap
    /\ SMARTSHEET_MAX_ROW_DELETION = 1
    /\ TagIdle
    /\ PageIdle
    /\ PrtgIdle
    /\ PipeIdle
    /\ RowIdle
    /\ MainIdle
    /\ servicenow_quarterly_incidents = <<>>
    /\ servicenow_quarterly_request_items = <<>>
    /\ servicenow_quarterly_change_requests = <<>>
    /\ sn_tickets = <<>>
    /\ sn_pc = "incidents"

SnNext ==
    \/ FetchIncidents
    \/ FetchRequestItems
    \/ FetchChangeRequests
    \/ TicketFetchRaises
    \/ ConvertSortReturn

SpecTickets == SnInit /\ [][SnNext]_vars

\* ---------------------------------------------------- tickets: properties
AllTickets ==
    [i \in DOMAIN AllRawQuarterlyTickets |-> ServiceNowTicket(AllRawQuarterlyTickets[i])]

DroppedTickets == Range(AllTickets) \ Range(sn_tickets)

\* C6: of the n tickets of the three tables, exactly min(n, cap) are
\* returned, each once, in non-increasing order of opened timestamp, and no
\* dropped ticket was opened later than a returned one.
C6_NewestTicketsKept ==
    sn_pc = "done" =>
        /\ Len(sn_tickets) = Min(Len(AllTickets), SMARTSHEET_MAX_DASHBOARD_ROW_COUNT)
        /\ Range(sn_tickets) \subseteq Range(AllTickets)
        /\ \A i, j \in DOMAIN sn_tickets :
               /\ i < j => sn_tickets[i].opened_at >= sn_tickets[j].opened_at
               /\ i # j => sn_tickets[i].number # sn_tickets[j].number
        /\ \A r \in Range(sn_tickets) : \A dr \in DroppedTickets :
               r.opened_at >= dr.opened_at

\* C6 witness: more tickets than the cap, from all three tables, arriving
\* oldest first, with tickets dropped and several timestamps returned.
C6_Witness ==
    /\ sn_pc = "done"
    /\ Len(AllTickets) > SMARTSHEET_MAX_DASHBOARD_ROW_COUNT
    /\ servicenow_quarterly_incidents # <<>>
    /\ servicenow_quarterly_request_items # <<>>
    /\ servicenow_quarterly_change_requests # <<>>
    /\ AllTickets[1].opened_at < AllTickets[Len(AllTickets)].opened_at
    /\ Len(sn_tickets) >= 2
    /\ sn_tickets[1].opened_at > sn_tickets[Len(sn_tickets)].opened_at
    /\ DroppedTickets # {}

\* ------------------------------------------------- ticket resolution time
\* Timestamps for opened_at and closed_at: those above, two that give a
\* difference of 3 and of 9 hours (0.125 and 0.375 days) and one two days on.
ResolveRawTimes ==
    RawTimes \cup {
        [day |-> 1, hour |-> 3,  pm |-> FALSE],
        [day |-> 1, hour |-> 9,  pm |-> FALSE],
        [day |-> 3, hour |-> 12, pm |-> FALSE]
    }

\* A string is a sequence of characters here; '' is <<>>. A closed_at that
\* is not '' is <<raw>> with raw a timestamp as above.
\* ServiceNowTicket.__init__: opened_at, closed_at and resolve_time.
\* Times are counted in hours, so resolve_time holds 24 times the number of
\* days that total_seconds() / 60 / 60 / 24 gives; None and '' are <<>>.
ServiceNowTicketTimes(record) ==
    LET opened == ParseServiceNowDatetime(record.opened_at)
        closed == IF record.closed_at = <<>> THEN <<>>
                  ELSE <<ParseServiceNowDatetime(record.closed_at[1])>>
    IN  [opened_at |-> opened,
         closed_at |-> closed,
         resolve_time |-> IF closed = <<>> THEN <<>> ELSE <<closed[1] - opened>>]

Abs(x) == IF x < 0 THEN -x ELSE x

\* n / d rounded to the nearest integer, ties to the even one (n >= 0, d > 0)
RoundHalfEven(n, d) ==
    LET q == n \div d
        r == n % d
    IN  IF 2 * r < d THEN q
        ELSE IF 2 * r > d THEN q + 1
        ELSE IF q % 2 = 0 THEN q ELSE q + 1

\* round(days, 2) for days = hours / 24, in hundredths of a day. Every tie
\* (hours an odd multiple of 3) is an exact binary fraction, so the float
\* is rounded half to even exactly.
Round2(hours) ==
    IF hours >= 0 THEN RoundHalfEven(hours * 100, 24)
    ELSE -RoundHalfEven((-hours) * 100, 24)

Digit(d) == <<"0", "1", "2", "3", "4", "5", "6", "7", "8", "9">>[d + 1]

RECURSIVE DecimalDigits(_)
DecimalDigits(n) ==
    IF n < 10 THEN <<Digit(n)>> ELSE DecimalDigits(n \div 10) \o <<Digit(n % 10)>>

\* str(x) for a float x of at most two decimals, given in hundredths:
\* '2.0', '0.5', '0.12', '-1.5'
StrFloat(hundredths) ==
    LET a == Abs(hundredths)
        frac == a % 100
    IN  (IF hundredths < 0 THEN <<"-">> ELSE <<>>)
        \o DecimalDigits(a \div 100) \o <<".">>
        \o (IF frac % 10 = 0 THEN <<Digit(frac \div 10)>>
            ELSE <<Digit(frac \div 10), Digit(frac % 10)>>)

\* The cell value without abs().
ResolutionCellSigned(resolve_time) ==
    IF resolve_time # <<>> THEN StrFloat(Round2(resolve_time[1])) ELSE <<>>

\* str(abs(round(ticket_data.resolve_time, 2))) if ticket_data.resolve_time != '' else ''
ResolutionCell(resolve_time) ==
    IF resolve_time # <<>> THEN StrFloat(Abs(Round2(resolve_time[1]))) ELSE <<>>

\* One raw record with any opened_at and any closed_at, '' included.
RowInit ==
    /\ CfgDefault
    /\ TagIdle
    /\ PageIdle
    /\ SnIdle
    /\ PrtgIdle
    /\ PipeIdle
    /\ MainIdle
    /\ sn_record \in [opened_at : ResolveRawTimes,
                      closed_at : {<<>>} \cup {<<t>> : t \in ResolveRawTimes}]
    /\ ticket_data = "none"
    /\ resolution_time_in_days_cell = "unset"
    /\ row_pc = "construct"

\* ServiceNowTicket(...) for the record
ConstructTicket ==
    /\ row_pc = "construct"
    /\ ticket_data' = ServiceNowTicketTimes(sn_record)
    /\ row_pc' = "to_row"
    /\ UNCHANGED <<sn_record, resolution_time_in_days_cell,
                   cfgVars, tagVars, pageVars, snVars, prtgVars, pipeVars, mainVars>>

\* servicenow_ticket_to_row: the resolution cell
TicketToRow ==
    /\ row_pc = "to_row"
    /\ resolution_time_in_days_cell' = ResolutionCell(ticket_data.resolve_time)
    /\ row_pc' = "done"
    /\ UNCHANGED <<sn_record, ticket_data,
                   cfgVars, tagVars, pageVars, snVars, prtgVars, pipeVars, mainVars>>

RowNext ==
    \/ ConstructTicket
    \/ TicketToRow

SpecResolve == RowInit /\ [][RowNext]_vars

\* ------------------------------------------- resolution time: properties
DigitOf(ch) == CHOOSE d \in 0..9 : Digit(d) = ch

RECURSIVE DigitsValue(_)
DigitsValue(chars) ==
    IF chars = <<>> THEN 0
    ELSE 10 * DigitsValue(SubSeq(chars, 1, Len(chars) - 1)) + DigitOf(chars[Len(chars)])

\* the number an unsigned decimal string of one or two decimals denotes, in
\* hundredths
CellHundredths(cell) ==
    LET dot == CHOOSE i \in DOMAIN cell : cell[i] = "."
        decimals == SubSeq(cell, dot + 1, Len(cell))
    IN  100 * DigitsValue(SubSeq(cell, 1, dot - 1))
        + (IF Len(decimals) = 1 THEN 10 * DigitsValue(decimals) ELSE DigitsValue(decimals))

\* hours from opened_at to closed_at of the raw record
HoursOpenToClosed ==
    ParseServiceNowDatetime(sn_record.closed_at[1]) - ParseServiceNowDatetime(sn_record.opened_at)

\* C11: the resolution cell is '' exactly when the closed timestamp is '';
\* otherwise it is |closed - opened| in days rounded to 2 decimals: never
\* negative, also when closed precedes opened, and '2.0' for 48 hours.
C11_ResolutionDays ==
    row_pc = "done" =>
        /\ (resolution_time_in_days_cell = <<>>) <=> (sn_record.closed_at = <<>>)
        /\ sn_record.closed_at # <<>> =>
               /\ Head(resolution_time_in_days_cell) # "-"
               /\ Len(resolution_time_in_days_cell) <= 4
               /\ 2 * Abs(24 * CellHundredths(resolution_time_in_days_cell)
                          - 100 * Abs(HoursOpenToClosed)) <= 24
               /\ HoursOpenToClosed = 48 => resolution_time_in_days_cell = <<"2", ".", "0">>

\* C11 witness: a ticket that was closed before it was opened and whose cell
\* holds a value.
C11_Witness ==
    /\ row_pc = "done"
    /\ sn_record.closed_at # <<>>
    /\ HoursOpenToClosed < 0
    /\ resolution_time_in_days_cell # <<>>

\* -------------------------------------------------- sensor source client
PRTG_01_USE_DEFAULTS_KEYWORD == "prtg_01_default_instance"
PRTG_02_USE_DEFAULTS_KEYWORD == "prtg_02_default_instance"

\* The environment's values of the shared default instances.
PRTG_01_DEFAULT_INSTANCE_URL == "https://prtg01.example"
PRTG_01_DEFAULT_API_KEY == "default_api_key_01"
PRTG_02_DEFAULT_INSTANCE_URL == "https://prtg02.example"
PRTG_02_DEFAULT_API_KEY == "default_api_key_02"

\* The instance descriptors the model draws customer configurations from.
PrtgDescriptors ==
    [url : {PRTG_01_USE_DEFAULTS_KEYWORD, PRTG_02_USE_DEFAULTS_KEYWORD,
            "https://prtg.customer.example"},
     api_key : {"customer_api_key"},
     probe_substrings : {<<>>, <<"core">>}]

\* The second sentinel resolved like the first.
ResolveSecondAsFirst(prtg_instance_data) ==
    IF prtg_instance_data.url \in {PRTG_01_USE_DEFAULTS_KEYWORD, PRTG_02_USE_DEFAULTS_KEYWORD}
    THEN [full_prtg_url |-> <<PRTG_01_DEFAULT_INSTANCE_URL, "/api/table.xml">>,
          prtg_api_key |-> PRTG_01_DEFAULT_API_KEY]
    ELSE [full_prtg_url |-> <<prtg_instance_data.url, "/api/table.xml">>,
          prtg_api_key |-> prtg_instance_data.api_key]

\* the if/elif/else that picks the endpoint and the key of one descriptor
ResolvePrtgInstance(prtg_instance_data) ==
    IF prtg_instance_data.url = PRTG_01_USE_DEFAULTS_KEYWORD
    THEN [full_prtg_url |-> <<PRTG_01_DEFAULT_INSTANCE_URL, "/api/table.xml">>,
          prtg_api_key |-> PRTG_01_DEFAULT_API_KEY]
    ELSE IF prtg_instance_data.url = PRTG_02_USE_DEFAULTS_KEYWORD
    THEN [full_prtg_url |-> <<PRTG_02_DEFAULT_INSTANCE_URL, "/api/table.xml">>,
          prtg_api_key |-> PRTG_02_DEFAULT_API_KEY]
    ELSE [full_prtg_url |-> <<prtg_instance_data.url, "/api/table.xml">>,
          prtg_api_key |-> prtg_instance_data.api_key]

\* filter_probe is attached only for a non-empty substring list
FilterProbe(prtg_instance_data) ==
    IF Len(prtg_instance_data.probe_substrings) # 0
    THEN [i \in DOMAIN prtg_instance_data.probe_substrings |->
              <<"@sub(", prtg_instance_data.probe_substrings[i], ")">>]
    ELSE "absent"

\* The loop left as soon as the cap is reached.
PrtgLoopStopsAtCap ==
    /\ prtg_index <= Len(prtg_instances)
    /\ Len(all_prtg_sensors) < SMARTSHEET_MAX_DASHBOARD_ROW_COUNT

\* `for prtg_instance_data in prtg_instances` has a next element
PrtgLoopContinues == prtg_index <= Len(prtg_instances)

\* One iteration whose request succeeds: resolve, send, convert the k sensors
\* of the answer into PRTGSensor objects and extend all_prtg_sensors.
PrtgRequestOk ==
    /\ prtg_pc = "loop"
    /\ PrtgLoopContinues
    /\ \E k \in 0..MaxSensors :
        LET inst == prtg_instances[prtg_index]
            prtg_sensors == [j \in 1..k |-> [instance |-> prtg_index, sensor |-> j]]
        IN  /\ prtg_requests' = Append(prtg_requests,
                   [instance |-> prtg_index,
                    url |-> ResolvePrtgInstance(inst).full_prtg_url,
                    apitoken |-> ResolvePrtgInstance(inst).prtg_api_key,
                    filter_probe |-> FilterProbe(inst),
                    sensors |-> prtg_sensors])
            /\ all_prtg_sensors' = all_prtg_sensors \o prtg_sensors
    /\ prtg_index' = prtg_index + 1
    /\ UNCHANGED <<prtg_instances, prtg_result, prtg_pc, cfgVars, tagVars, pageVars, snVars, pipeVars, rowVars, mainVars>>

\* The request, or reading its JSON, raises: nothing catches it.
PrtgRequestRaises ==
    /\ prtg_pc = "loop"
    /\ PrtgLoopContinues
    /\ prtg_pc' = "raised"
    /\ UNCHANGED <<prtg_instances, prtg_index, prtg_requests, all_prtg_sensors,
                   prtg_result, cfgVars, tagVars, pageVars, snVars, pipeVars, rowVars, mainVars>>

\* The loop is over: return the list, cut to the cap when it is longer.
PrtgReturn ==
    /\ prtg_pc = "loop"
    /\ ~PrtgLoopContinues
    /\ prtg_result' = Capped(all_prtg_sensors)
    /\ prtg_pc' = "done"
    /\ UNCHANGED <<prtg_instances, prtg_index, prtg_requests, all_prtg_sensors,
                   cfgVars, tagVars, pageVars, snVars, pipeVars, rowVars, mainVars>>

\* One call of get_alerting_prtg_sensors on a list of at most MaxInstances
\* descriptors.
PrtgInit ==
    /\ OPSGENIE_MAX_RESPONSE_LIMIT = 1
    /\ SMARTSHEET_MAX_DASHBOARD_ROW_COUNT \in 1..MaxCap
    /\ SMARTSHEET_MAX_ROW_DELETION = 1
    /\ TagIdle
    /\ PageIdle
    /\ SnIdle
    /\ PipeIdle
    /\ RowIdle
    /\ MainIdle
    /\ prtg_instances \in SeqsUpTo(PrtgDescriptors, MaxInstances)
    /\ prtg_index = 1
    /\ prtg_requests = <<>>
    /\ all_prtg_sensors = <<>>
    /\ prtg_result = <<>>
    /\ prtg_pc = "loop"

PrtgNext ==
    \/ PrtgRequestOk
    \/ PrtgRequestRaises
    \/ PrtgReturn

SpecPrtg == PrtgInit /\ [][PrtgNext]_vars

\* ---------------------------------------------------- sensors: properties
RECURSIVE AnswersInOrder(_)
AnswersInOrder(reqs) ==
    IF reqs = <<>> THEN <<>> ELSE reqs[1].sensors \o AnswersInOrder(Tail(reqs))

\* C9: every descriptor is queried exactly once, in list order, also after
\* the cap is reached, and the result is the first min(total, cap) sensors of
\* the answers concatenated in descriptor order.
C9_AllInstancesQueried ==
    prtg_pc = "done" =>
        LET answers == AnswersInOrder(prtg_requests) IN
        /\ Len(prtg_requests) = Len(prtg_instances)
        /\ \A i \in DOMAIN prtg_requests : prtg_requests[i].instance = i
        /\ prtg_result =
               SubSeq(answers, 1, Min(Len(answers), SMARTSHEET_MAX_DASHBOARD_ROW_COUNT))

\* C9 witness: the first answer alone reaches the cap, the second instance is
\* still queried and answers with sensors, which are cut off.
C9_Witness ==
    /\ prtg_pc = "done"
    /\ Len(prtg_requests) = 2
    /\ Len(prtg_requests[1].sensors) >= SMARTSHEET_MAX_DASHBOARD_ROW_COUNT
    /\ prtg_requests[2].sensors # <<>>
    /\ Len(prtg_result) < Len(AnswersInOrder(prtg_requests))

\* C10: each descriptor is resolved on its own: the first sentinel gives the
\* first default endpoint and key, the second sentinel the second default
\* endpoint and key, any other url the descriptor's own url and api_key.
C10_SentinelResolution ==
    \A i \in DOMAIN prtg_requests :
        LET inst == prtg_instances[prtg_requests[i].instance]
            req == prtg_requests[i]
        IN  /\ inst.url = PRTG_01_USE_DEFAULTS_KEYWORD =>
                  /\ req.url = <<PRTG_01_DEFAULT_INSTANCE_URL, "/api/table.xml">>
                  /\ req.apitoken = PRTG_01_DEFAULT_API_KEY
            /\ inst.url = PRTG_02_USE_DEFAULTS_KEYWORD =>
                  /\ req.url = <<PRTG_02_DEFAULT_INSTANCE_URL, "/api/table.xml">>
                  /\ req.apitoken = PRTG_02_DEFAULT_API_KEY
            /\ inst.url \notin {PRTG_01_USE_DEFAULTS_KEYWORD, PRTG_02_USE_DEFAULTS_KEYWORD} =>
                  /\ req.url = <<inst.url, "/api/table.xml">>
                  /\ req.apitoken = inst.api_key

\* C10 witness: one list carrying the second and then the first sentinel,
\* both queried.
C10_Witness ==
    /\ Len(prtg_requests) = 2
    /\ prtg_instances[1].url = PRTG_02_USE_DEFAULTS_KEYWORD
    /\ prtg_instances[2].url = PRTG_01_USE_DEFAULTS_KEYWORD
    /\ prtg_requests[1].apitoken # prtg_instances[1].api_key
    /\ prtg_requests[1].url # prtg_requests[2].url

\* ------------------------------------------- sheet writer and pipelines
\* The three put_*_data_into_smartsheet functions run the same steps on
\* their own source and sheet: fetch, get_sheet, convert, clear, add.
\* The sheet service: get_sheet returns every row of the sheet; a delete_rows
\* call that succeeds removes the rows it names and one that fails removes
\* none; an add_rows call that succeeds puts the rows, under fresh ids, at
\* the top of the sheet and one that fails adds none.

\* *_to_row: one row per record, flagged to_top
ToRow(record) == [to_top |-> TRUE, cells |-> record]

\* convert_*_to_smartsheet_rows
ConvertToSmartsheetRows(records) == [i \in DOMAIN records |-> ToRow(records[i])]

\* the rows of a sheet that was filled by an earlier run
OldRows(n) == [i \in 1..n |-> [id |-> i, row |-> ToRow(<<"old", i>>)]]

\* the loop that gathers row.id for every row of the Sheet object
RowIds(rows) == [i \in DOMAIN rows |-> rows[i].id]

\* A slice one id short.
RowIdChunkShort(offset) ==
    SubSeq(all_row_ids, offset + 1,
           Min(offset + SMARTSHEET_MAX_ROW_DELETION - 1, Len(all_row_ids)))

\* all_row_ids[chunk_offset:chunk_offset + SMARTSHEET_MAX_ROW_DELETION]
RowIdChunk(offset) ==
    SubSeq(all_row_ids, offset + 1,
           Min(offset + SMARTSHEET_MAX_ROW_DELETION, Len(all_row_ids)))

\* Only the first chunk is sent.
MoreChunksFirstOnly == chunk_offset < Min(Len(all_row_ids), SMARTSHEET_MAX_ROW_DELETION)

\* range(0, len(all_row_ids), SMARTSHEET_MAX_ROW_DELETION) has a next offset
MoreChunks == chunk_offset < Len(all_row_ids)

\* the sheet after a successful delete_rows(ids)
RECURSIVE WithoutRows(_, _)
WithoutRows(rows, ids) ==
    IF rows = <<>> THEN <<>>
    ELSE IF rows[1].id \in Range(ids) THEN WithoutRows(Tail(rows), ids)
    ELSE <<rows[1]>> \o WithoutRows(Tail(rows), ids)

\* the sheet after a successful add_rows(rows)
WithRowsOnTop(sheet, rows) ==
    [i \in DOMAIN rows |-> [id |-> Len(smartsheet_sheet) + i, row |-> rows[i]]] \o sheet

Log(level, msg) == sheet_log' = Append(sheet_log, [level |-> level, msg |-> msg])

\* put_prtg_sensor_data_into_smartsheet with an empty instance list: a notice
\* is logged and the function returns.
SkipNoPrtgInstances ==
    /\ pipe_pc = "fetch"
    /\ pipeline = "prtg"
    /\ Len(prtg_instances) = 0
    /\ Log("info", "No PRTG instances set")
    /\ pipe_pc' = "done"
    /\ UNCHANGED <<pipeline, source_records, sheet_rows, smartsheet_sheet, new_rows,
                   all_row_ids, chunk_offset, delete_calls, add_calls,
                   cfgVars, tagVars, pageVars, snVars, prtgVars, rowVars, mainVars>>

\* A fetch that does not look at the length of the instance list.
FetchSourceWithoutInstances ==
    /\ pipe_pc = "fetch"
    /\ \E k \in 0..Min(MaxRecords, SMARTSHEET_MAX_DASHBOARD_ROW_COUNT) :
           source_records' = [j \in 1..k |-> <<pipeline, j>>]
    /\ pipe_pc' = "get_sheet"
    /\ UNCHANGED <<pipeline, sheet_rows, smartsheet_sheet, new_rows, all_row_ids,
                   chunk_offset, delete_calls, add_calls, sheet_log,
                   cfgVars, tagVars, pageVars, snVars, prtgVars, rowVars, mainVars>>

\* The source client returns its list (at most the cap).
FetchSource ==
    /\ pipe_pc = "fetch"
    /\ pipeline = "prtg" => Len(prtg_instances) # 0
    /\ \E k \in 0..Min(MaxRecords, SMARTSHEET_MAX_DASHBOARD_ROW_COUNT) :
           source_records' = [j \in 1..k |-> <<pipeline, j>>]
    /\ pipe_pc' = "get_sheet"
    /\ UNCHANGED <<pipeline, sheet_rows, smartsheet_sheet, new_rows, all_row_ids,
                   chunk_offset, delete_calls, add_calls, sheet_log,
                   cfgVars, tagVars, pageVars, snVars, prtgVars, rowVars, mainVars>>

\* The source client raises: the put_* function is left before any sheet call.
FetchRaises ==
    /\ pipe_pc = "fetch"
    /\ pipeline = "prtg" => Len(prtg_instances) # 0
    /\ pipe_pc' = "raised"
    /\ UNCHANGED <<pipeline, source_records, sheet_rows, smartsheet_sheet, new_rows,
                   all_row_ids, chunk_offset, delete_calls, add_calls, sheet_log,
                   cfgVars, tagVars, pageVars, snVars, prtgVars, rowVars, mainVars>>

\* SMARTSHEET_CLIENT.Sheets.get_sheet(sheet id)
GetSheet ==
    /\ pipe_pc = "get_sheet"
    /\ smartsheet_sheet' = sheet_rows
    /\ pipe_pc' = "convert"
    /\ UNCHANGED <<pipeline, source_records, sheet_rows, new_rows, all_row_ids,
                   chunk_offset, delete_calls, add_calls, sheet_log,
                   cfgVars, tagVars, pageVars, snVars, prtgVars, rowVars, mainVars>>

ConvertRows ==
    /\ pipe_pc = "convert"
    /\ new_rows' = ConvertToSmartsheetRows(source_records)
    /\ pipe_pc' = "clear"
    /\ UNCHANGED <<pipeline, source_records, sheet_rows, smartsheet_sheet, all_row_ids,
                   chunk_offset, delete_calls, add_calls, sheet_log,
                   cfgVars, tagVars, pageVars, snVars, prtgVars, rowVars, mainVars>>

\* A put_* function that has cleared the sheet when the converter raises.
ConvertRaisesAfterClear ==
    /\ pipe_pc = "convert"
    /\ delete_calls' = Append(delete_calls, [ids |-> RowIds(smartsheet_sheet), ok |-> TRUE])
    /\ sheet_rows' = WithoutRows(sheet_rows, RowIds(smartsheet_sheet))
    /\ pipe_pc' = "raised"
    /\ UNCHANGED <<pipeline, source_records, smartsheet_sheet, new_rows,
                   all_row_ids, chunk_offset, add_calls, sheet_log,
                   cfgVars, tagVars, pageVars, snVars, prtgVars, rowVars, mainVars>>

\* The converter raises (a record or a sheet column it reads is missing):
\* the put_* function is left before clear_smartsheet is called.
ConvertRaises ==
    /\ pipe_pc = "convert"
    /\ pipe_pc' = "raised"
    /\ UNCHANGED <<pipeline, source_records, sheet_rows, smartsheet_sheet, new_rows,
                   all_row_ids, chunk_offset, delete_calls, add_calls, sheet_log,
                   cfgVars, tagVars, pageVars, snVars, prtgVars, rowVars, mainVars>>

\* clear_smartsheet up to its loop: gather the ids; on an empty sheet log
\* the notice and return.
ClearStart ==
    /\ pipe_pc = "clear"
    /\ all_row_ids' = RowIds(smartsheet_sheet)
    /\ chunk_offset' = 0
    /\ IF Len(RowIds(smartsheet_sheet)) = 0
       THEN /\ sheet_log' = sheet_log \o
                   <<[level |-> "info", msg |-> "Clearing Smartsheet"],
                     [level |-> "info", msg |-> "Smartsheet already empty!"]>>
            /\ pipe_pc' = "add"
       ELSE /\ Log("info", "Clearing Smartsheet")
            /\ pipe_pc' = "chunks"
    /\ UNCHANGED <<pipeline, source_records, sheet_rows, smartsheet_sheet, new_rows,
                   delete_calls, add_calls, cfgVars, tagVars, pageVars, snVars, prtgVars, rowVars, mainVars>>

\* One iteration whose delete_rows call reports SUCCESS.
DeleteChunkOk ==
    /\ pipe_pc = "chunks"
    /\ MoreChunks
    /\ delete_calls' = Append(delete_calls, [ids |-> RowIdChunk(chunk_offset), ok |-> TRUE])
    /\ sheet_rows' = WithoutRows(sheet_rows, RowIdChunk(chunk_offset))
    /\ chunk_offset' = chunk_offset + SMARTSHEET_MAX_ROW_DELETION
    /\ UNCHANGED <<pipeline, source_records, smartsheet_sheet, new_rows, all_row_ids,
                   add_calls, sheet_log, pipe_pc,
                   cfgVars, tagVars, pageVars, snVars, prtgVars, rowVars, mainVars>>

\* A failed iteration that sends the same chunk a second time before it
\* moves on.
DeleteChunkFailSendsAgain ==
    /\ pipe_pc = "chunks"
    /\ MoreChunks
    /\ delete_calls' = Append(delete_calls, [ids |-> RowIdChunk(chunk_offset), ok |-> FALSE])
    /\ sheet_log' = sheet_log \o
           <<[level |-> "error", msg |-> "An error occurred while trying to clear a chunk of rows"],
             [level |-> "error", msg |-> "Result Code"],
             [level |-> "info", msg |-> "Trying again..."]>>
    /\ chunk_offset' =
           IF delete_calls # <<>> /\ delete_calls[Len(delete_calls)].ids = RowIdChunk(chunk_offset)
           THEN chunk_offset + SMARTSHEET_MAX_ROW_DELETION
           ELSE chunk_offset
    /\ UNCHANGED <<pipeline, source_records, sheet_rows, smartsheet_sheet, new_rows,
                   all_row_ids, add_calls, pipe_pc,
                   cfgVars, tagVars, pageVars, snVars, prtgVars, rowVars, mainVars>>

\* One iteration whose delete_rows call reports another message: three log
\* entries and `continue`.
DeleteChunkFail ==
    /\ pipe_pc = "chunks"
    /\ MoreChunks
    /\ delete_calls' = Append(delete_calls, [ids |-> RowIdChunk(chunk_offset), ok |-> FALSE])
    /\ sheet_log' = sheet_log \o
           <<[level |-> "error", msg |-> "An error occurred while trying to clear a chunk of rows"],
             [level |-> "error", msg |-> "Result Code"],
             [level |-> "info", msg |-> "Trying again..."]>>
    /\ chunk_offset' = chunk_offset + SMARTSHEET_MAX_ROW_DELETION
    /\ UNCHANGED <<pipeline, source_records, sheet_rows, smartsheet_sheet, new_rows,
                   all_row_ids, add_calls, pipe_pc,
                   cfgVars, tagVars, pageVars, snVars, prtgVars, rowVars, mainVars>>

\* A clear that gives up after a failed chunk: no closing entry, no insert.
ClearReturnGivesUp ==
    /\ pipe_pc = "chunks"
    /\ ~MoreChunks
    /\ IF \E i \in DOMAIN delete_calls : ~delete_calls[i].ok
       THEN /\ pipe_pc' = "done"
            /\ UNCHANGED sheet_log
       ELSE /\ Log("info", "All rows were cleared successfully!")
            /\ pipe_pc' = "add"
    /\ UNCHANGED <<pipeline, source_records, sheet_rows, smartsheet_sheet, new_rows,
                   all_row_ids, chunk_offset, delete_calls, add_calls,
                   cfgVars, tagVars, pageVars, snVars, prtgVars, rowVars, mainVars>>

\* The loop is over: the closing log entry, and clear_smartsheet returns.
ClearReturn ==
    /\ pipe_pc = "chunks"
    /\ ~MoreChunks
    /\ Log("info", "All rows were cleared successfully!")
    /\ pipe_pc' = "add"
    /\ UNCHANGED <<pipeline, source_records, sheet_rows, smartsheet_sheet, new_rows,
                   all_row_ids, chunk_offset, delete_calls, add_calls,
                   cfgVars, tagVars, pageVars, snVars, prtgVars, rowVars, mainVars>>

\* add_rows_to_smartsheet, the add_rows call reporting SUCCESS
AddRowsOk ==
    /\ pipe_pc = "add"
    /\ add_calls' = Append(add_calls, [rows |-> new_rows, ok |-> TRUE])
    /\ sheet_rows' = WithRowsOnTop(sheet_rows, new_rows)
    /\ sheet_log' = sheet_log \o
           <<[level |-> "info", msg |-> "Adding rows"],
             [level |-> "info", msg |-> "All rows were added successfully!"]>>
    /\ pipe_pc' = "done"
    /\ UNCHANGED <<pipeline, source_records, smartsheet_sheet, new_rows, all_row_ids,
                   chunk_offset, delete_calls, cfgVars, tagVars, pageVars, snVars, prtgVars, rowVars, mainVars>>

\* add_rows_to_smartsheet sending the rows once more after a first failure.
AddRowsFailSendsAgain ==
    /\ pipe_pc = "add"
    /\ add_calls' = Append(add_calls, [rows |-> new_rows, ok |-> FALSE])
    /\ sheet_log' = sheet_log \o
           <<[level |-> "info", msg |-> "Adding rows"],
             [level |-> "error", msg |-> "An error occurred while adding rows"],
             [level |-> "error", msg |-> "Result Code"]>>
    /\ pipe_pc' = IF add_calls = <<>> THEN "add" ELSE "done"
    /\ UNCHANGED <<pipeline, source_records, sheet_rows, smartsheet_sheet, new_rows,
                   all_row_ids, chunk_offset, delete_calls,
                   cfgVars, tagVars, pageVars, snVars, prtgVars, rowVars, mainVars>>

\* add_rows_to_smartsheet, the add_rows call reporting another message
AddRowsFail ==
    /\ pipe_pc = "add"
    /\ add_calls' = Append(add_calls, [rows |-> new_rows, ok |-> FALSE])
    /\ sheet_log' = sheet_log \o
           <<[level |-> "info", msg |-> "Adding rows"],
             [level |-> "error", msg |-> "An error occurred while adding rows"],
             [level |-> "error", msg |-> "Result Code"]>>
    /\ pipe_pc' = "done"
    /\ UNCHANGED <<pipeline, source_records, sheet_rows, smartsheet_sheet, new_rows,
                   all_row_ids, chunk_offset, delete_calls,
                   cfgVars, tagVars, pageVars, snVars, prtgVars, rowVars, mainVars>>

\* One run of one put_* function on a sheet that holds 0..MaxSheetRows rows.
PipeInit ==
    /\ OPSGENIE_MAX_RESPONSE_LIMIT = 1
    /\ SMARTSHEET_MAX_DASHBOARD_ROW_COUNT = MaxCap
    /\ SMARTSHEET_MAX_ROW_DELETION \in 1..MaxChunk
    /\ TagIdle
    /\ PageIdle
    /\ SnIdle
    /\ RowIdle
    /\ MainIdle
    /\ pipeline \in {"opsgenie", "servicenow", "prtg"}
    /\ prtg_instances \in
           IF pipeline = "prtg"
           THEN {<<>>, <<[url |-> PRTG_01_USE_DEFAULTS_KEYWORD, api_key |-> "customer_api_key",
                          probe_substrings |-> <<>>]>>}
           ELSE {<<>>}
    /\ prtg_index = 0
    /\ prtg_requests = <<>>
    /\ all_prtg_sensors = <<>>
    /\ prtg_result = <<>>
    /\ prtg_pc = "idle"
    /\ source_records = <<>>
    /\ \E n \in 0..MaxSheetRows : sheet_rows = OldRows(n)
    /\ smartsheet_sheet = <<>>
    /\ new_rows = <<>>
    /\ all_row_ids = <<>>
    /\ chunk_offset = 0
    /\ delete_calls = <<>>
    /\ add_calls = <<>>
    /\ sheet_log = <<>>
    /\ pipe_pc = "fetch"

PipeNext ==
    \/ SkipNoPrtgInstances
    \/ FetchSource
    \/ FetchRaises
    \/ GetSheet
    \/ ConvertRows
    \/ ConvertRaises
    \/ ClearStart
    \/ DeleteChunkOk
    \/ DeleteChunkFail
    \/ ClearReturn
    \/ AddRowsOk
    \/ AddRowsFail

SpecPipeline == PipeInit /\ [][PipeNext]_vars

\* ----------------------------------------------- sheet writer: properties
\* clear_smartsheet has returned
ClearReturned == pipe_pc = "add" \/ (pipe_pc = "done" /\ add_calls # <<>>)

Logged(msg) == \E i \in DOMAIN sheet_log : sheet_log[i].msg = msg

RECURSIVE ChunksInOrder(_)
ChunksInOrder(calls) ==
    IF calls = <<>> THEN <<>> ELSE calls[1].ids \o ChunksInOrder(Tail(calls))

AllSheetCallsSucceeded ==
    /\ \A i \in DOMAIN delete_calls : delete_calls[i].ok
    /\ \A i \in DOMAIN add_calls : add_calls[i].ok

\* C8: when every delete chunk and the insert succeed, the run leaves the
\* sheet holding exactly the newly mapped rows: every mapped row is there,
\* nothing else is, and no row that was in the sheet before remains.
C8_SheetOverwritten ==
    (pipe_pc = "done" /\ add_calls # <<>> /\ AllSheetCallsSucceeded) =>
        /\ Len(sheet_rows) = Len(new_rows)
        /\ {sheet_rows[i].row : i \in DOMAIN sheet_rows} = Range(new_rows)
        /\ new_rows = ConvertToSmartsheetRows(source_records)
        /\ \A i \in DOMAIN sheet_rows : sheet_rows[i].id \notin Range(RowIds(smartsheet_sheet))

\* C8 witness: a run that replaced several chunks of old rows by new rows
\* with every call succeeding.
C8_Witness ==
    /\ pipe_pc = "done"
    /\ AllSheetCallsSucceeded
    /\ Len(delete_calls) >= 2
    /\ Len(add_calls) = 1
    /\ Len(new_rows) >= 2
    /\ Len(smartsheet_sheet) > Len(new_rows)

LoggedIn(log, msg) == \E i \in DOMAIN log : log[i].msg = msg

\* C12: a run that reaches the write step sends exactly one insert call with
\* all mapped rows (also zero rows) and never a second one; SUCCESS gives the
\* success log entry, any other status the error entries, and in both cases
\* the put_* function returns normally.
C12_SingleInsert ==
    [][/\ Len(add_calls') <= 1
       /\ pipe_pc # "add" => add_calls' = add_calls
       /\ pipe_pc = "add" =>
              /\ Len(add_calls') = Len(add_calls) + 1
              /\ add_calls'[1].rows = ConvertToSmartsheetRows(source_records)
              /\ pipe_pc' = "done"
              /\ LoggedIn(sheet_log', "All rows were added successfully!") = add_calls'[1].ok
              /\ LoggedIn(sheet_log', "An error occurred while adding rows") = ~add_calls'[1].ok
      ]_vars

\* C12 witness: a run with zero mapped rows whose only insert call failed and
\* that returned.
C12_Witness ==
    /\ pipe_pc = "done"
    /\ add_calls = <<[rows |-> <<>>, ok |-> FALSE]>>
    /\ source_records = <<>>

FailedDeletes == {i \in DOMAIN delete_calls : ~delete_calls[i].ok}

\* the ids sent in delete calls that did not report SUCCESS
FailedIds == UNION {Range(delete_calls[i].ids) : i \in FailedDeletes}

CountLogged(msg) == Cardinality({i \in DOMAIN sheet_log : sheet_log[i].msg = msg})

C21_FetchFailureLogged ==
    [][(pipeline \in {"servicenow", "prtg"} /\ pipe_pc = "fetch" /\ pipe_pc' = "raised") =>
           /\ Len(sheet_log') > Len(sheet_log)
           /\ sheet_log'[Len(sheet_log')].level = "error"
      ]_vars

\* C22: the steps of a pipeline occur in the order fetch, map, clear,
\* insert: a delete or insert call is sent, and the sheet changes, only after
\* the fetch and the mapping are done; every delete precedes the insert,
\* which follows the end of the clear; and when the fetch or the mapping
\* raises, the sheet holds the rows it had before the run.
C22_FetchMapClearInsert ==
    [][/\ (delete_calls' # delete_calls \/ add_calls' # add_calls
            \/ sheet_rows' # sheet_rows) =>
              /\ pipe_pc \in {"chunks", "add"}
              /\ new_rows = ConvertToSmartsheetRows(source_records)
              /\ Logged("Clearing Smartsheet")
       /\ delete_calls' # delete_calls => (add_calls = <<>> /\ add_calls' = <<>>)
       /\ add_calls' # add_calls => (pipe_pc = "add" /\ ~MoreChunks)
       /\ pipe_pc' = "raised" =>
              /\ pipe_pc \in {"fetch", "convert"}
              /\ delete_calls' = <<>>
              /\ add_calls' = <<>>
              /\ sheet_rows' = sheet_rows
              /\ sheet_rows' = OldRows(Len(sheet_rows'))
      ]_vars

\* C22 witness: the mapping raised after a fetch that returned records, and
\* the sheet holds its rows of before.
C22_Witness ==
    /\ pipe_pc = "raised"
    /\ source_records # <<>>
    /\ Len(sheet_rows) >= 2
    /\ sheet_rows = smartsheet_sheet

\* ------------------------------------ main: every customer, every pipeline
\* the order of the calls in put_customer_data_into_smartsheets
PIPELINES == <<"opsgenie", "servicenow", "prtg">>

\* the customer configurations of a run: with or without PRTG instances
CustomerConfigUniverse ==
    {[prtg_instances |-> <<>>],
     [prtg_instances |-> <<[url |-> PRTG_01_USE_DEFAULTS_KEYWORD,
                            api_key |-> "customer_api_key",
                            probe_substrings |-> <<>>]>>]}

\* what a customer's sheets hold before the run: the sensor sheet one row
\* of an earlier run, the alert and the ticket sheet none
SheetBefore(p) == IF p = "prtg" THEN OldRows(1) ELSE OldRows(0)

\* A put_customer_data_into_smartsheets that calls the sensor pipeline
\* before the ticket pipeline.
AfterPipelineSwapped(p) ==
    IF p = "opsgenie" THEN "call_prtg"
    ELSE IF p = "prtg" THEN "call_servicenow"
    ELSE "complete_customer"

\* where put_customer_data_into_smartsheets goes on after put_<p>_... returns
AfterPipeline(p) ==
    IF p = "opsgenie" THEN "call_servicenow"
    ELSE IF p = "servicenow" THEN "call_prtg"
    ELSE "complete_customer"

CallPc(p) ==
    IF p = "opsgenie" THEN "call_opsgenie"
    ELSE IF p = "servicenow" THEN "call_servicenow"
    ELSE "call_prtg"

MainLog(msg, customer) ==
    main_log' = Append(main_log, [msg |-> msg, customer |-> customer])

\* the sheet calls the running put_* function has sent
SheetCallsOfRun ==
    {[customer |-> customer_index, pipeline |-> pipeline, op |-> "delete"] :
         i \in DOMAIN delete_calls}
    \cup {[customer |-> customer_index, pipeline |-> pipeline, op |-> "insert"] :
              i \in DOMAIN add_calls}

\* main up to its loop
MainBegin ==
    /\ main_pc = "begin"
    /\ MainLog("Beginning QBR automation...", 0)
    /\ main_pc' = "loop"
    /\ UNCHANGED <<CUSTOMER_CONFIGS, customer_index, sheets, pipeline_events, sheet_calls,
                   cfgVars, tagVars, pageVars, snVars, prtgVars, pipeVars, rowVars>>

\* The for loop takes the next customer_config and calls
\* put_customer_data_into_smartsheets.
BeginCustomer ==
    /\ main_pc = "loop"
    /\ customer_index < Len(CUSTOMER_CONFIGS)
    /\ customer_index' = customer_index + 1
    /\ MainLog("Beginning QBR automation for", customer_index + 1)
    /\ main_pc' = "call_opsgenie"
    /\ UNCHANGED <<CUSTOMER_CONFIGS, sheets, pipeline_events, sheet_calls,
                   cfgVars, tagVars, pageVars, snVars, prtgVars, pipeVars, rowVars>>

\* put_customer_data_into_smartsheets calls put_<p>_data_into_smartsheet
\* with the customer's configuration.
CallPut(p) ==
    /\ main_pc = CallPc(p)
    /\ pipeline' = p
    /\ prtg_instances' =
           IF p = "prtg" THEN CUSTOMER_CONFIGS[customer_index].prtg_instances ELSE <<>>
    /\ sheet_rows' = sheets[customer_index][p]
    /\ source_records' = <<>>
    /\ smartsheet_sheet' = <<>>
    /\ new_rows' = <<>>
    /\ all_row_ids' = <<>>
    /\ chunk_offset' = 0
    /\ delete_calls' = <<>>
    /\ add_calls' = <<>>
    /\ sheet_log' = <<>>
    /\ pipe_pc' = "fetch"
    /\ pipeline_events' = Append(pipeline_events,
           [customer |-> customer_index, pipeline |-> p, event |-> "start"])
    /\ main_pc' = "in_put"
    /\ UNCHANGED <<CUSTOMER_CONFIGS, customer_index, main_log, sheets, sheet_calls,
                   prtg_index, prtg_requests, all_prtg_sensors, prtg_result, prtg_pc,
                   cfgVars, tagVars, pageVars, snVars, rowVars>>

\* the locals of a put_* function are gone when it is left
PutLeft ==
    /\ pipeline' = "none"
    /\ prtg_instances' = <<>>
    /\ sheet_rows' = <<>>
    /\ source_records' = <<>>
    /\ smartsheet_sheet' = <<>>
    /\ new_rows' = <<>>
    /\ all_row_ids' = <<>>
    /\ chunk_offset' = 0
    /\ delete_calls' = <<>>
    /\ add_calls' = <<>>
    /\ sheet_log' = <<>>
    /\ pipe_pc' = "idle"
    /\ sheets' = [sheets EXCEPT ![customer_index][pipeline] = sheet_rows]
    /\ sheet_calls' = sheet_calls \cup SheetCallsOfRun

\* An exception that leaves a put_* function and is caught nowhere, handled
\* as a return.
PutRaisesSwallowed ==
    /\ main_pc = "in_put"
    /\ pipe_pc = "raised"
    /\ PutLeft
    /\ main_pc' = AfterPipeline(pipeline)
    /\ UNCHANGED <<CUSTOMER_CONFIGS, customer_index, main_log, pipeline_events,
                   prtg_index, prtg_requests, all_prtg_sensors, prtg_result, prtg_pc,
                   cfgVars, tagVars, pageVars, snVars, rowVars>>

\* The put_* function returns.
PutReturns ==
    /\ main_pc = "in_put"
    /\ pipe_pc = "done"
    /\ PutLeft
    /\ pipeline_events' = Append(pipeline_events,
           [customer |-> customer_index, pipeline |-> pipeline, event |-> "finish"])
    /\ main_pc' = AfterPipeline(pipeline)
    /\ UNCHANGED <<CUSTOMER_CONFIGS, customer_index, main_log,
                   prtg_index, prtg_requests, all_prtg_sensors, prtg_result, prtg_pc,
                   cfgVars, tagVars, pageVars, snVars, rowVars>>

\* An exception leaves the put_* function: nothing in
\* put_customer_data_into_smartsheets or main catches it.
PutRaises ==
    /\ main_pc = "in_put"
    /\ pipe_pc = "raised"
    /\ PutLeft
    /\ main_pc' = "aborted"
    /\ UNCHANGED <<CUSTOMER_CONFIGS, customer_index, main_log, pipeline_events,
                   prtg_index, prtg_requests, all_prtg_sensors, prtg_result, prtg_pc,
                   cfgVars, tagVars, pageVars, snVars, rowVars>>

\* put_customer_data_into_smartsheets has returned
CompleteCustomer ==
    /\ main_pc = "complete_customer"
    /\ MainLog("Completed QBR automation for", customer_index)
    /\ main_pc' = "loop"
    /\ UNCHANGED <<CUSTOMER_CONFIGS, customer_index, sheets, pipeline_events, sheet_calls,
                   cfgVars, tagVars, pageVars, snVars, prtgVars, pipeVars, rowVars>>

\* The for loop is over.
MainCompleted ==
    /\ main_pc = "loop"
    /\ customer_index = Len(CUSTOMER_CONFIGS)
    /\ MainLog("QBR automation completed successfully!", 0)
    /\ main_pc' = "done"
    /\ UNCHANGED <<CUSTOMER_CONFIGS, customer_index, sheets, pipeline_events, sheet_calls,
                   cfgVars, tagVars, pageVars, snVars, prtgVars, pipeVars, rowVars>>

\* A run of main over 0..MaxCustomers customers, at most one record per
\* source and one row id per delete call.
MainInit ==
    /\ CfgDefault
    /\ TagIdle
    /\ PageIdle
    /\ SnIdle
    /\ PrtgIdle
    /\ PipeIdle
    /\ RowIdle
    /\ \E n \in 0..MaxCustomers : CUSTOMER_CONFIGS \in [1..n -> CustomerConfigUniverse]
    /\ customer_index = 0
    /\ main_pc = "begin"
    /\ main_log = <<>>
    /\ sheets = [c \in DOMAIN CUSTOMER_CONFIGS |->
                     [opsgenie |-> SheetBefore("opsgenie"),
                      servicenow |-> SheetBefore("servicenow"),
                      prtg |-> SheetBefore("prtg")]]
    /\ pipeline_events = <<>>
    /\ sheet_calls = {}

MainNext ==
    \/ MainBegin
    \/ BeginCustomer
    \/ CallPut("opsgenie")
    \/ CallPut("servicenow")
    \/ CallPut("prtg")
    \/ PipeNext
    \/ PutReturns
    \/ PutRaises
    \/ CompleteCustomer
    \/ MainCompleted

SpecMain == MainInit /\ [][MainNext]_vars

\* --------------------------------------------------------- main: properties
\* the sensor pipeline of the current customer is at its first statement
\* and the customer has no instances
AtSkip ==
    /\ main_pc = "in_put"
    /\ pipeline = "prtg"
    /\ pipe_pc = "fetch"
    /\ Len(CUSTOMER_CONFIGS[customer_index].prtg_instances) = 0

\* the sensor pipeline of the current customer has returned from the skip
Skipped ==
    /\ main_pc = "in_put"
    /\ pipeline = "prtg"
    /\ pipe_pc = "done"
    /\ Logged("No PRTG instances set")

\* C13: with an empty instance list the sensor pipeline is skipped: no
\* probe request, the sensor sheet is neither fetched, cleared nor written
\* and keeps its rows, a notice is logged, and the run goes on to the
\* completion of this customer and to the next customer.
C13_SkipWithoutInstances ==
    [][/\ AtSkip =>
              /\ Skipped'
              /\ UNCHANGED <<prtg_requests, source_records, sheet_rows, smartsheet_sheet,
                             delete_calls, add_calls, sheets, sheet_calls>>
       /\ Skipped =>
              /\ main_pc' = "complete_customer"
              /\ sheets'[customer_index].prtg = SheetBefore("prtg")
              /\ \A call \in sheet_calls' :
                     ~(call.customer = customer_index /\ call.pipeline = "prtg")
       /\ main_pc = "complete_customer" => main_pc' = "loop"
       /\ (main_pc = "loop" /\ customer_index < Len(CUSTOMER_CONFIGS)) =>
              /\ customer_index' = customer_index + 1
              /\ main_pc' = "call_opsgenie"
      ]_vars

\* C13 witness: the second customer's alert pipeline is running after the
\* first customer's sensor pipeline was skipped, its sensor sheet as before.
C13_Witness ==
    /\ customer_index = 2
    /\ main_pc = "in_put"
    /\ CUSTOMER_CONFIGS[1].prtg_instances = <<>>
    /\ sheets[1].prtg = SheetBefore("prtg")
    /\ sheets[1].prtg # <<>>

\* the i-th call or return of a put_* function when customers are taken in
\* configuration order and the pipelines in the order alert, ticket, sensor
InOrderEvent(i) ==
    [customer |-> ((i - 1) \div 6) + 1,
     pipeline |-> PIPELINES[(((i - 1) % 6) \div 2) + 1],
     event |-> IF (i - 1) % 2 = 0 THEN "start" ELSE "finish"]

\* C14: customers are processed in configuration order, for each the alert
\* pipeline finishes before the ticket pipeline starts and that before the
\* sensor pipeline starts, and a step of a pipeline happens only between its
\* start and its finish, after every pipeline of the customers before.
C14_SequentialOrder ==
    /\ \A i \in DOMAIN pipeline_events : pipeline_events[i] = InOrderEvent(i)
    /\ pipe_pc # "idle" =>
           /\ pipeline_events # <<>>
           /\ pipeline_events[Len(pipeline_events)] =
                  [customer |-> customer_index, pipeline |-> pipeline, event |-> "start"]
    /\ pipe_pc = "idle" =>
           /\ source_records = <<>> /\ smartsheet_sheet = <<>>
           /\ delete_calls = <<>> /\ add_calls = <<>>
    /\ \A call \in sheet_calls :
           \E i \in DOMAIN pipeline_events :
               /\ pipeline_events[i].customer = call.customer
               /\ pipeline_events[i].pipeline = call.pipeline

\* C14 witness: two customers done, all six pipelines started and finished.
C14_Witness ==
    /\ main_pc = "done"
    /\ Len(pipeline_events) = 12
    /\ \E call \in sheet_calls : call.customer = 2 /\ call.op = "insert"

PipelineRank(p) == CHOOSE i \in DOMAIN PIPELINES : PIPELINES[i] = p

\* the pipelines after pipeline p of customer c
LaterPipelines(c, p) ==
    {cp \in (DOMAIN CUSTOMER_CONFIGS) \X Range(PIPELINES) :
         \/ cp[1] > c
         \/ cp[1] = c /\ PipelineRank(cp[2]) > PipelineRank(p)}

\* the run was aborted in the pipeline whose start is the last event: no
\* later pipeline has run or touched its sheet, the final entry is missing
AbortedThere ==
    LET last == pipeline_events[Len(pipeline_events)]
    IN  /\ main_pc = "aborted"
        /\ last.event = "start"
        /\ last.customer = customer_index
        /\ \A cp \in LaterPipelines(last.customer, last.pipeline) :
               /\ sheets[cp[1]][cp[2]] = SheetBefore(cp[2])
               /\ \A call \in sheet_calls :
                      ~(call.customer = cp[1] /\ call.pipeline = cp[2])
               /\ \A i \in DOMAIN pipeline_events :
                      ~(pipeline_events[i].customer = cp[1]
                        /\ pipeline_events[i].pipeline = cp[2])
        /\ ~LoggedIn(main_log, "QBR automation completed successfully!")

\* C15: when a pipeline step of customer k raises, the run aborts there: no
\* later pipeline of customer k and no pipeline of a later customer runs,
\* their sheets get no delete or insert call, the final entry is never
\* logged, and nothing happens after the abort.
C15_AbortOnFailure ==
    [][/\ main_pc # "aborted"
       /\ pipe_pc = "raised" => AbortedThere'
      ]_vars

\* C15 witness: the first of two customers' ticket fetch raised and the run
\* is aborted with the sensor sheet and the second customer's sheets as
\* before.
C15_Witness ==
    /\ main_pc = "aborted"
    /\ Len(CUSTOMER_CONFIGS) = 2
    /\ customer_index = 1
    /\ pipeline_events[Len(pipeline_events)].pipeline = "servicenow"
    /\ sheets[2].prtg = SheetBefore("prtg")

====
